---- MODULE Spec2Model ----
(***************************************************************************)
(* Model of usgdp_npp/usgdp_npp_bokeh.py.  Function get_usgdp_data(): the   *)
(* peak search in each of the 15 recession windows, the quarters-from-peak *)
(* re-indexing of the GDPC1 series and the left merges that build the wide *)
(* usgdp_pk table (specification Spec).  Function usgdp_npp(): its call of *)
(* get_usgdp_data, the range of the main window and the construction of    *)
(* the figure (specification SpecNpp).                                     *)
(*                                                                         *)
(* A DataFrame is a record [columns, data]: columns is the sequence of     *)
(* column names, data the sequence of the columns' cell sequences, all of  *)
(* one length.  A column name is a sequence of tokens, so that             *)
(* 'Date' + str(10) is <<"Date", 1, 0>>.  A float is an exact fraction     *)
(* [num, den] in lowest terms (the quotients of the small integers used    *)
(* here are distinct floats exactly when they are distinct fractions); NaN *)
(* is the record [nan |-> TRUE].  A Timestamp is the integer               *)
(* year * 10000 + month * 100 + day, NaT the integer -1.                   *)
(***************************************************************************)
EXTENDS Integers, Sequences, FiniteSets, TLC

\* ---------------------------------------------------------------- bounds
MaxBkwd == 1
MaxFwd == 1
PatLen == 2
MaxVal == 2

\* ------------------------------------------------------------- constants
NRec == 15

\* the missing float
NaN == [nan |-> TRUE]

Range(s) == {s[k] : k \in 1..Len(s)}

Abs(n) == IF n < 0 THEN -n ELSE n

RECURSIVE GCD(_, _)
GCD(a, b) == IF b = 0 THEN a ELSE GCD(b, a % b)

\* the float n / d for integers n and d > 0, in lowest terms
Frac(n, d) ==
    LET g == GCD(Abs(n), d)
    IN  [num |-> n \div g, den |-> d \div g]

\* an int64 cast to float64
ToFloat(k) == [num |-> k, den |-> 1]

FloatLT(a, b) == a.num * b.den < b.num * a.den

FloatLE(a, b) == a.num * b.den <= b.num * a.den

\* a + b on floats; NaN propagates
FloatAdd(a, b) ==
    IF a = NaN \/ b = NaN THEN NaN
    ELSE Frac(a.num * b.den + b.num * a.den, a.den * b.den)

\* a / b on floats, b > 0 (GDPC1 and the divisor 3 are positive); NaN
\* propagates
FloatDiv(a, b) ==
    IF a = NaN \/ b = NaN THEN NaN
    ELSE Frac(a.num * b.den, a.den * b.num)

\* a - b and a * b on floats; NaN propagates
FloatSub(a, b) ==
    IF a = NaN \/ b = NaN THEN NaN
    ELSE Frac(a.num * b.den - b.num * a.den, a.den * b.den)

FloatMul(a, b) ==
    IF a = NaN \/ b = NaN THEN NaN
    ELSE Frac(a.num * b.num, a.den * b.den)

\* the comparison a < b of two Python floats: False when either is NaN
PyLess(a, b) == a # NaN /\ b # NaN /\ FloatLT(a, b)

\* ------------------------------------------------------------------ dates
\* pandas Timestamp of a calendar day
Timestamp(y, m, d) == y * 10000 + m * 100 + d

\* the missing Timestamp
NaT == -1

\* Timestamp.year, Timestamp.month, Timestamp.day
Year(t) == t \div 10000

Month(t) == (t \div 100) % 100

Day(t) == t % 100

\* a date string 'Y-m-d' is kept as its three fields <<Y, m, d>>;
\* comparison of the Date column with such a string parses it first
ToDatetime(s) == Timestamp(s[1], s[2], s[3])

\* strftime('%Y-%m-%d'): zero-padded digits separated by '-'
Strftime(t) ==
    << Year(t) \div 1000, (Year(t) \div 100) % 10, (Year(t) \div 10) % 10,
       Year(t) % 10, "-", Month(t) \div 10, Month(t) % 10, "-",
       Day(t) \div 10, Day(t) % 10 >>

\* strptime(s, '%Y-%m-%d')
Strptime(s) ==
    Timestamp(s[1] * 1000 + s[2] * 100 + s[3] * 10 + s[4],
              s[6] * 10 + s[7], s[9] * 10 + s[10])

\* str(i) for an integer i >= 0, as its sequence of decimal digits
RECURSIVE Str(_)
Str(n) == IF n < 10 THEN <<n>> ELSE Str(n \div 10) \o <<n % 10>>

\* prefix + str(i) and f'{prefix}{i}'
Nm(prefix, n) == <<prefix>> \o Str(n)

\* ------------------------------------------------------ recession catalog
rec_label_yr_lst ==
    << <<1929, 1933>>, <<1937, 1938>>, <<1945>>, <<1948, 1949>>,
       <<1953, 1954>>, <<1957, 1958>>, <<1960, 1961>>, <<1969, 1970>>,
       <<1973, 1975>>, <<1980>>, <<1981, 1982>>, <<1990, 1991>>,
       <<2001>>, <<2007, 2009>>, <<2020, 2020>> >>

rec_label_yrmth_lst ==
    << <<"Aug", 1929, "Mar", 1933>>, <<"May", 1937, "Jun", 1938>>,
       <<"Feb", 1945, "Oct", 1945>>, <<"Nov", 1948, "Oct", 1949>>,
       <<"Jul", 1953, "May", 1954>>, <<"Aug", 1957, "Apr", 1958>>,
       <<"Apr", 1960, "Feb", 1961>>, <<"Dec", 1969, "Nov", 1970>>,
       <<"Nov", 1973, "Mar", 1975>>, <<"Jan", 1980, "Jul", 1980>>,
       <<"Jul", 1981, "Nov", 1982>>, <<"Jul", 1990, "Mar", 1991>>,
       <<"Mar", 2001, "Nov", 2001>>, <<"Dec", 2007, "Jun", 2009>>,
       <<"Feb", 2020, "Apr", 2020>> >>

\* the start labels with those of the 1929 and 1937 recessions exchanged
RecBegSwapped ==
    << <<"May", 1937>>, <<"Aug", 1929>>, <<"Feb", 1945>>, <<"Nov", 1948>>,
       <<"Jul", 1953>>, <<"Aug", 1957>>, <<"Apr", 1960>>, <<"Dec", 1969>>,
       <<"Nov", 1973>>, <<"Jan", 1980>>, <<"Jul", 1981>>, <<"Jul", 1990>>,
       <<"Mar", 2001>>, <<"Dec", 2007>>, <<"Feb", 2020>> >>

rec_beg_yrmth_lst ==
    << <<"Aug", 1929>>, <<"May", 1937>>, <<"Feb", 1945>>, <<"Nov", 1948>>,
       <<"Jul", 1953>>, <<"Aug", 1957>>, <<"Apr", 1960>>, <<"Dec", 1969>>,
       <<"Nov", 1973>>, <<"Jan", 1980>>, <<"Jul", 1981>>, <<"Jul", 1990>>,
       <<"Mar", 2001>>, <<"Dec", 2007>>, <<"Feb", 2020>> >>

maxdate_rng_lst ==
    << << <<1929, 7, 1>>, <<1929, 10, 1>> >>,
       << <<1937, 4, 1>>, <<1937, 10, 1>> >>,
       << <<1945, 1, 1>>, <<1945, 4, 1>> >>,
       << <<1948, 7, 1>>, <<1949, 1, 1>> >>,
       << <<1953, 4, 1>>, <<1953, 7, 1>> >>,
       << <<1957, 7, 1>>, <<1957, 10, 1>> >>,
       << <<1960, 1, 1>>, <<1960, 4, 1>> >>,
       << <<1969, 7, 1>>, <<1970, 1, 1>> >>,
       << <<1973, 10, 1>>, <<1974, 1, 1>> >>,
       << <<1979, 10, 1>>, <<1980, 4, 1>> >>,
       << <<1981, 4, 1>>, <<1981, 10, 1>> >>,
       << <<1990, 4, 1>>, <<1991, 10, 1>> >>,
       << <<2001, 1, 1>>, <<2001, 7, 1>> >>,
       << <<2007, 7, 1>>, <<2008, 1, 1>> >>,
       << <<2019, 10, 1>>, <<2020, 3, 1>> >> >>

\* ------------------------------------------------------------- DataFrames
DataFrame(cols, dat) == [columns |-> cols, data |-> dat]

\* len(df)
NRows(df) == IF df.data = << >> THEN 0 ELSE Len(df.data[1])

\* position of the column called name
ColIdx(df, name) == CHOOSE k \in 1..Len(df.columns) : df.columns[k] = name

\* df[name]: the column as a sequence of cells
Col(df, name) == df.data[ColIdx(df, name)]

\* df[name] = vals: overwrite the column or append a new one
SetCol(df, name, vals) ==
    IF name \in Range(df.columns)
    THEN DataFrame(df.columns, [df.data EXCEPT ![ColIdx(df, name)] = vals])
    ELSE DataFrame(Append(df.columns, name), Append(df.data, vals))

\* df[[names]]
Project(df, names) ==
    DataFrame(names, [k \in 1..Len(names) |-> Col(df, names[k])])

\* the missing value of a column of the right frame in a left merge
NullOf(name) == IF name[1] = "Date" THEN NaT ELSE NaN

\* the positions 1, ..., n
Positions(n) == [k \in 1..n |-> k]

\* the (left row, right row) pairs of an inner merge: a left row without a
\* match is dropped
RECURSIVE MergePairsInner(_, _, _, _)
MergePairsInner(lkeys, rkeys, cand, l) ==
    IF l > Len(lkeys) THEN << >>
    ELSE LET key == ToFloat(lkeys[l])
             m == SelectSeq(cand, LAMBDA r : rkeys[r] = key)
         IN  [j \in 1..Len(m) |-> <<l, m[j]>>]
                 \o MergePairsInner(lkeys, rkeys, cand, l + 1)

\* the (left row, right row) pairs of a left merge, from left row l on: every
\* left row is kept, in order; it is paired with every right row whose
\* float64 key equals its int64 key, in the right frame's order, and with no
\* row (0) when there is none.  cand lists the right rows whose key occurs
\* among the left keys at all.
RECURSIVE MergePairs(_, _, _, _)
MergePairs(lkeys, rkeys, cand, l) ==
    IF l > Len(lkeys) THEN << >>
    ELSE LET key == ToFloat(lkeys[l])
             m == SelectSeq(cand, LAMBDA r : rkeys[r] = key)
         IN  (IF m = << >> THEN << <<l, 0>> >>
              ELSE [j \in 1..Len(m) |-> <<l, m[j]>>])
                 \o MergePairs(lkeys, rkeys, cand, l + 1)

\* pd.merge(left, right, left_on, right_on, how='left'); columns present on
\* both sides get the suffixes _x and _y
Merge(left, right, left_on, right_on) ==
    LET both == Range(left.columns) \cap Range(right.columns)
        lcols == [k \in 1..Len(left.columns) |->
                    IF left.columns[k] \in both
                    THEN Append(left.columns[k], "_x") ELSE left.columns[k]]
        rcols == [k \in 1..Len(right.columns) |->
                    IF right.columns[k] \in both
                    THEN Append(right.columns[k], "_y") ELSE right.columns[k]]
        lkeys == Col(left, left_on)
        rkeys == Col(right, right_on)
        fkeys == {ToFloat(lkeys[k]) : k \in 1..Len(lkeys)}
        cand == SelectSeq(Positions(Len(rkeys)), LAMBDA r : rkeys[r] \in fkeys)
        pairs == MergePairs(lkeys, rkeys, cand, 1)
        ldata == [k \in 1..Len(left.columns) |->
                    [p \in 1..Len(pairs) |-> left.data[k][pairs[p][1]]]]
        rdata == [k \in 1..Len(right.columns) |->
                    [p \in 1..Len(pairs) |->
                        IF pairs[p][2] = 0 THEN NullOf(right.columns[k])
                        ELSE right.data[k][pairs[p][2]]]]
    IN  DataFrame(lcols \o rcols, ldata \o rdata)

\* a drop that removes nothing
DropNothing(df, name) == df

\* df.drop(columns=[name])
Drop(df, name) ==
    LET keep == SelectSeq(Positions(Len(df.columns)),
                          LAMBDA k : df.columns[k] # name)
    IN  DataFrame([k \in 1..Len(keep) |-> df.columns[keep[k]]],
                  [k \in 1..Len(keep) |-> df.data[keep[k]]])

\* df.rename(columns={from1: to1, from2: to2})
Rename(df, from1, to1, from2, to2) ==
    DataFrame([k \in 1..Len(df.columns) |->
                  IF df.columns[k] = from1 THEN to1
                  ELSE IF df.columns[k] = from2 THEN to2
                  ELSE df.columns[k]],
              df.data)

\* --------------------------------------------------------- input series
\* The loaded usgdp_df: one observation on the first day of every quarter
\* from a start date to an end date, the values repeating a pattern of
\* PatLen values in 1..MaxVal.  The full series runs from 1929-07-01 (first
\* quarter made from the annual data) to 2020-04-01; the other ranges start
\* late or end early.  The full series optionally carries one irregularity
\* around the observation dated PerturbDate, as a hand-edited or damaged
\* data file read with download_from_internet=False can.
FullStart == <<1929, 7, 1>>

FullEnd == <<2020, 4, 1>>

Ranges == { <<FullStart, FullEnd>>, << <<1930, 1, 1>>, FullEnd >>,
            << FullStart, <<2019, 7, 1>> >> }

PerturbDate == Timestamp(2007, 10, 1)

Patterns == [1..PatLen -> 1..MaxVal]

MonthIdx(t) == Year(t) * 12 + (Month(t) - 1)

DateOfMonthIdx(n) == Timestamp(n \div 12, (n % 12) + 1, 1)

\* pd.date_range(start, end, freq='QS') paired with the pattern's values
QuarterlyRows(start, end, pat) ==
    LET n == ((MonthIdx(end) - MonthIdx(start)) \div 3) + 1
    IN  [j \in 1..n |->
            << DateOfMonthIdx(MonthIdx(start) + 3 * (j - 1)),
               ToFloat(pat[((j - 1) % PatLen) + 1]) >>]

\* the irregularities: none; the next observation placed before the one of
\* PerturbDate; that observation dated a month late; dropped (dropna of a
\* missing value); the three values 14000, 15000, 14500 around it; and a
\* second observation with the same date and the value v
Kinds == {<<"none", 0>>, <<"swap", 0>>, <<"offqtr", 0>>, <<"gap", 0>>,
          <<"fixture", 0>>} \cup {<<"dup", v>> : v \in 1..MaxVal}

Perturb(rows, kind) ==
    LET P == {j \in 2..(Len(rows) - 1) : rows[j][1] = PerturbDate}
        p == CHOOSE j \in P : TRUE
    IN  IF kind[1] = "none" \/ P = {}
        THEN rows
        ELSE CASE kind[1] = "dup" ->
                    SubSeq(rows, 1, p) \o << <<rows[p][1], ToFloat(kind[2])>> >>
                        \o SubSeq(rows, p + 1, Len(rows))
               [] kind[1] = "swap" ->
                    [rows EXCEPT ![p] = rows[p + 1], ![p + 1] = rows[p]]
               [] kind[1] = "offqtr" ->
                    [rows EXCEPT ![p] =
                        << Timestamp(Year(rows[p][1]), Month(rows[p][1]) + 1, 1),
                           rows[p][2] >>]
               [] kind[1] = "gap" ->
                    SubSeq(rows, 1, p - 1) \o SubSeq(rows, p + 1, Len(rows))
               [] kind[1] = "fixture" ->
                    [rows EXCEPT ![p - 1] = <<rows[p - 1][1], ToFloat(14000)>>,
                                 ![p] = <<rows[p][1], ToFloat(15000)>>,
                                 ![p + 1] = <<rows[p + 1][1], ToFloat(14500)>>]

\* the two-column frame read from a list of (Date, GDPC1) rows
FrameOfRows(rows) ==
    DataFrame(<< <<"Date">>, <<"GDPC1">> >>,
              << [r \in 1..Len(rows) |-> rows[r][1]],
                 [r \in 1..Len(rows) |-> rows[r][2]] >>)

\* the (range, irregularity) pairs of the input family
InputCases ==
    {<<rg, <<"none", 0>> >> : rg \in Ranges}
        \cup {<< <<FullStart, FullEnd>>, k >> : k \in Kinds}

\* ------------------------------------------------------------------ state
VARIABLES
    frwd_qtrs_max,   \* argument
    bkwd_qtrs_max,   \* argument
    end_date_str2,   \* date string of the end of the series
    usgdp_df,        \* the loaded series: columns Date, GDPC1
    usgdp_pk,        \* the wide table under construction
    usgdp_pk_long,   \* copy of the series with the per-recession columns
    peak_vals,       \* list of peak values
    peak_dates,      \* list of peak date strings
    i,               \* index of the recession being processed (0-based)
    pc,              \* "loop", "returned" or "raised"
    result,          \* the returned tuple, << >> while nothing is returned
    files,           \* names of the csv files written by to_csv
    npp              \* the frame of usgdp_npp when it is the caller

vars == << frwd_qtrs_max, bkwd_qtrs_max, end_date_str2, usgdp_df, usgdp_pk,
           usgdp_pk_long, peak_vals, peak_dates, i, pc, result, files, npp >>

\* np.arange(lo, hi, dtype=int)
Arange(lo, hi) ==
    IF hi <= lo THEN << >> ELSE [k \in 1..(hi - lo) |-> lo + k - 1]

\* the mask with the end of the range excluded
InRangeOpenEnd(df, rng) ==
    LET dates == Col(df, <<"Date">>)
        lo == ToDatetime(rng[1])
        hi == ToDatetime(rng[2])
    IN  [r \in 1..Len(dates) |-> dates[r] >= lo /\ dates[r] < hi]

\* boolean mask (Date >= rng[0]) & (Date <= rng[1])
InRange(df, rng) ==
    LET dates == Col(df, <<"Date">>)
        lo == ToDatetime(rng[1])
        hi == ToDatetime(rng[2])
    IN  [r \in 1..Len(dates) |-> dates[r] >= lo /\ dates[r] <= hi]

\* series[mask]
Masked(series, mask) ==
    LET keep == SelectSeq(Positions(Len(mask)), LAMBDA k : mask[k])
    IN  [k \in 1..Len(keep) |-> series[keep[k]]]

\* Series.max() of a float series: NaN when the series is empty
FloatMax(series) ==
    IF series = << >> THEN NaN
    ELSE CHOOSE x \in Range(series) : \A y \in Range(series) : FloatLE(y, x)

\* Series.min() of a datetime series
DateMin(series) ==
    IF series = << >> THEN NaT
    ELSE CHOOSE x \in Range(series) : \A y \in Range(series) : x <= y

\* a maximum that falls back to the epoch when the series is empty
DateMaxOrEpoch(series) ==
    IF series = << >> THEN Timestamp(1970, 1, 1)
    ELSE CHOOSE x \in Range(series) : \A y \in Range(series) : y <= x

\* Series.max() of a datetime series: NaT when the series is empty
DateMax(series) ==
    IF series = << >> THEN NaT
    ELSE CHOOSE x \in Range(series) : \A y \in Range(series) : y <= x

\* lines 210-212
PeakVal(df, rng) == FloatMax(Masked(Col(df, <<"GDPC1">>), InRange(df, rng)))

\* the peak date taken without the test GDPC1 == peak_val
PeakDateAnyValue(df, rng, peak_val) ==
    DateMax(Masked(Col(df, <<"Date">>), InRange(df, rng)))

\* lines 218-221; GDPC1 == NaN is False in every row
PeakDate(df, rng, peak_val) ==
    LET vals == Col(df, <<"GDPC1">>)
        mask == InRange(df, rng)
        hit == [r \in 1..Len(vals) |-> mask[r] /\ vals[r] = peak_val]
    IN  DateMax(Masked(Col(df, <<"Date">>), hit))

\* months from the peak, as in a monthly series: no division by 3
QtrsFrmPkMonths(date, peak_date) ==
    FloatAdd(ToFloat((Year(date) - Year(peak_date)) * 12),
             ToFloat(Month(date) - Month(peak_date)))

\* the offset without the year term
QtrsFrmPkNoYear(date, peak_date) ==
    FloatDiv(ToFloat(Month(date) - Month(peak_date)), ToFloat(3))

\* the offset with the month difference rounded to the nearest quarter
QtrsFrmPkRounded(date, peak_date) ==
    ToFloat((Year(date) - Year(peak_date)) * 4
                + (2 * (Month(date) - Month(peak_date)) + 3) \div 6)

\* lines 225-226: (year - peak_year) * 4 + (month - peak_month) / 3
QtrsFrmPk(date, peak_date) ==
    FloatAdd(ToFloat((Year(date) - Year(peak_date)) * 4),
             FloatDiv(ToFloat(Month(date) - Month(peak_date)), ToFloat(3)))

\* line 215: usgdp_pk_long[usgdp_dv_pk_name] = usgdp_pk_long['GDPC1'] / peak_val
AddDvPk(long, n, peak_val) ==
    LET vals == Col(long, <<"GDPC1">>)
    IN  SetCol(long, Nm("usgdp_dv_pk", n),
               [r \in 1..Len(vals) |-> FloatDiv(vals[r], peak_val)])

\* lines 224-226: usgdp_pk_long[qtrs_frm_pk_name] = ...
AddQtrsFrmPk(long, n, peak_date) ==
    LET dates == Col(long, <<"Date">>)
    IN  SetCol(long, Nm("qtrs_frm_pk", n),
               [r \in 1..Len(dates) |-> QtrsFrmPk(dates[r], peak_date)])

\* the merge keyed on the offsets of recession 0 for every recession
MergeRecessionKey0(pk, long, n) ==
    LET right == Project(long, << Nm("qtrs_frm_pk", 0), <<"Date">>,
                                  <<"GDPC1">>, Nm("usgdp_dv_pk", n) >>)
        merged == Merge(pk, right, <<"qtrs_frm_peak">>, Nm("qtrs_frm_pk", 0))
        dropped == Drop(merged, Nm("qtrs_frm_pk", 0))
    IN  Rename(dropped, <<"Date">>, Nm("Date", n), <<"GDPC1">>, Nm("GDPC1", n))

\* lines 234-242: merge recession n's columns into usgdp_pk, drop the join
\* key of the right frame and rename Date and GDPC1
MergeRecession(pk, long, n) ==
    LET right == Project(long, << Nm("qtrs_frm_pk", n), <<"Date">>,
                                  <<"GDPC1">>, Nm("usgdp_dv_pk", n) >>)
        merged == Merge(pk, right, <<"qtrs_frm_peak">>, Nm("qtrs_frm_pk", n))
        dropped == Drop(merged, Nm("qtrs_frm_pk", n))
    IN  Rename(dropped, <<"Date">>, Nm("Date", n), <<"GDPC1">>, Nm("GDPC1", n))

\* 'data/usgdp_pk_' + end_date_str + '.csv'
FilenameFull(date_str) == <<"data/usgdp_pk_">> \o date_str \o <<".csv">>

\* state of get_usgdp_data at line 206, before the loop over the recessions,
\* for the series of the given cases
AtLoop(cases) ==
    /\ \E c \in cases, pat \in Patterns :
          /\ usgdp_df = FrameOfRows(
                  Perturb(QuarterlyRows(ToDatetime(c[1][1]),
                                        ToDatetime(c[1][2]), pat), c[2]))
          /\ end_date_str2 = Strftime(ToDatetime(c[1][2]))
    /\ frwd_qtrs_max \in 0..MaxFwd
    /\ bkwd_qtrs_max \in 0..MaxBkwd
    /\ usgdp_pk = DataFrame(<< <<"qtrs_frm_peak">> >>,
                            << Arange(-bkwd_qtrs_max, frwd_qtrs_max + 1) >>)
    /\ usgdp_pk_long = usgdp_df
    /\ peak_vals = << >>
    /\ peak_dates = << >>
    /\ i = 0
    /\ pc = "loop"
    /\ result = << >>
    /\ files = {}

\* get_usgdp_data called on its own: usgdp_npp has no frame
NoCall == [pc |-> "nocall"]

Init == AtLoop(InputCases) /\ npp = NoCall

\* the loop body with a guard that skips a recession whose window is empty
IterateSkipEmpty ==
    /\ pc = "loop"
    /\ i < Len(maxdate_rng_lst)
    /\ LET maxdate_rng == maxdate_rng_lst[i + 1]
           peak_val == PeakVal(usgdp_df, maxdate_rng)
           peak_date == PeakDate(usgdp_df, maxdate_rng, peak_val)
           long1 == AddDvPk(usgdp_pk_long, i, peak_val)
           long2 == AddQtrsFrmPk(long1, i, peak_date)
       IN  /\ peak_vals' = Append(peak_vals, peak_val)
           /\ i' = i + 1
           /\ pc' = pc
           /\ IF peak_date = NaT
              THEN /\ usgdp_pk_long' = long1
                   /\ UNCHANGED << usgdp_pk, peak_dates >>
              ELSE /\ peak_dates' = Append(peak_dates, Strftime(peak_date))
                   /\ usgdp_pk_long' = long2
                   /\ usgdp_pk' = MergeRecession(usgdp_pk, long2, i)
    /\ UNCHANGED << frwd_qtrs_max, bkwd_qtrs_max, end_date_str2, usgdp_df,
                    result, files, npp >>

\* One pass of the loop body for recession i, lines 207-242.  When no
\* observation lies in the window, peak_val is NaN and peak_date is NaT, and
\* NaT.strftime raises ValueError at line 222: the pass ends there, after
\* lines 213 and 215 have run.
Iterate ==
    /\ pc = "loop"
    /\ i < Len(maxdate_rng_lst)
    /\ LET maxdate_rng == maxdate_rng_lst[i + 1]
           peak_val == PeakVal(usgdp_df, maxdate_rng)
           peak_date == PeakDate(usgdp_df, maxdate_rng, peak_val)
           long1 == AddDvPk(usgdp_pk_long, i, peak_val)
           long2 == AddQtrsFrmPk(long1, i, peak_date)
       IN  /\ peak_vals' = Append(peak_vals, peak_val)
           /\ IF peak_date = NaT
              THEN /\ usgdp_pk_long' = long1
                   /\ pc' = "raised"
                   /\ UNCHANGED << usgdp_pk, peak_dates, i >>
              ELSE /\ peak_dates' = Append(peak_dates, Strftime(peak_date))
                   /\ usgdp_pk_long' = long2
                   /\ usgdp_pk' = MergeRecession(usgdp_pk, long2, i)
                   /\ i' = i + 1
                   /\ pc' = pc
    /\ UNCHANGED << frwd_qtrs_max, bkwd_qtrs_max, end_date_str2, usgdp_df,
                    result, files, npp >>

\* lines 244-247: write the csv file and return the 8-tuple
Return ==
    /\ pc = "loop"
    /\ i = Len(maxdate_rng_lst)
    /\ files' = files \cup {FilenameFull(end_date_str2)}
    /\ result' = << usgdp_pk, end_date_str2, peak_vals, peak_dates,
                    rec_label_yr_lst, rec_label_yrmth_lst, rec_beg_yrmth_lst,
                    maxdate_rng_lst >>
    /\ pc' = "returned"
    /\ UNCHANGED << frwd_qtrs_max, bkwd_qtrs_max, end_date_str2, usgdp_df,
                    usgdp_pk, usgdp_pk_long, peak_vals, peak_dates, i, npp >>

Next == Iterate \/ Return

Spec == Init /\ [][Next]_vars

\* ------------------------------------------------------------- usgdp_npp
\* A local of usgdp_npp that no statement has assigned yet.
Unassigned == [unassigned |-> TRUE]

\* the string 'today', and the day dt.date.today() returns
Today == <<"today">>

DateToday == Timestamp(2020, 6, 15)

\* lines 292-297: end_date of the argument usgdp_end_date
EndDate(usgdp_end_date) ==
    IF usgdp_end_date = Today THEN DateToday ELSE Strptime(usgdp_end_date)

\* The (usgdp_end_date, download_from_internet) pairs: today's download, and
\* the saved file of the end date of the series.
EndDateCases == { <<Today, TRUE>>, <<Strftime(ToDatetime(FullEnd)), FALSE>> }

\* the series handed to usgdp_npp's call of get_usgdp_data: the full range,
\* regular or with the observation of PerturbDate missing
NppInputCases ==
    { << <<FullStart, FullEnd>>, k >> : k \in {<<"none", 0>>, <<"gap", 0>>} }

\* the frame of usgdp_npp at its call of get_usgdp_data, line 307
Frame(usgdp_end_date, download_from_internet, frwd_main, bkwd_main) ==
    [pc |-> "call",
     usgdp_end_date |-> usgdp_end_date,
     download_from_internet |-> download_from_internet,
     html_show |-> FALSE,
     end_date |-> EndDate(usgdp_end_date),
     end_date_str |-> Strftime(EndDate(usgdp_end_date)),
     frwd_qtrs_main |-> frwd_main,
     bkwd_qtrs_main |-> bkwd_main,
     end_date2 |-> Unassigned,
     i |-> 0,
     rec_cds_list |-> << >>,
     min_main_val_lst |-> << >>,
     max_main_val_lst |-> << >>,
     min_main_val |-> Unassigned,
     max_main_val |-> Unassigned,
     filename |-> Unassigned,
     fig |-> Unassigned,
     updated_date_str |-> Unassigned,
     result |-> << >>]

\* usgdp_npp inside its call of get_usgdp_data (line 307), the callee at
\* line 206
InitNpp ==
    /\ AtLoop(NppInputCases)
    /\ \E e \in EndDateCases, fm \in 0..MaxFwd, bm \in 0..MaxBkwd :
          npp = Frame(e[1], e[2], fm, bm)

\* lines 305-316: the tuple returned by get_usgdp_data is unpacked and the
\* lists are created
Receive ==
    /\ pc = "returned"
    /\ npp.pc = "call"
    /\ npp' = [npp EXCEPT !.pc = "for",
                          !.end_date2 = Strptime(result[2]),
                          !.rec_cds_list = << >>,
                          !.min_main_val_lst = << >>,
                          !.max_main_val_lst = << >>]
    /\ UNCHANGED << frwd_qtrs_max, bkwd_qtrs_max, end_date_str2, usgdp_df,
                    usgdp_pk, usgdp_pk_long, peak_vals, peak_dates, i, pc,
                    result, files >>

\* a cell of the column called name is null; the int64 axis has no nulls
IsNull(name, cell) ==
    IF name = <<"qtrs_frm_peak">> THEN FALSE ELSE cell = NullOf(name)

\* df.dropna(): the rows without a null cell
Dropna(df) ==
    LET keep == SelectSeq(Positions(NRows(df)),
                    LAMBDA t : \A k \in 1..Len(df.columns) :
                                  ~IsNull(df.columns[k], df.data[k][t]))
    IN  DataFrame(df.columns,
                  [k \in 1..Len(df.columns) |->
                      [t \in 1..Len(keep) |-> df.data[k][keep[t]]]])

\* Series.min() and Series.max() of a float series: nulls are skipped, and
\* the result is NaN when nothing is left
SeriesMin(series) ==
    LET V == {x \in Range(series) : x # NaN}
    IN  IF V = {} THEN NaN ELSE CHOOSE x \in V : \A y \in V : FloatLE(x, y)

SeriesMax(series) ==
    LET V == {x \in Range(series) : x # NaN}
    IN  IF V = {} THEN NaN ELSE CHOOSE x \in V : \A y \in V : FloatLE(y, x)

\* Python's min(lst) and max(lst) of a non-empty list of floats: the first
\* item, replaced by each later item that compares < (for max: >) with it
RECURSIVE PyMinFrom(_, _, _)
PyMinFrom(lst, k, best) ==
    IF k > Len(lst) THEN best
    ELSE PyMinFrom(lst, k + 1, IF PyLess(lst[k], best) THEN lst[k] ELSE best)

PyMin(lst) == PyMinFrom(lst, 2, lst[1])

RECURSIVE PyMaxFrom(_, _, _)
PyMaxFrom(lst, k, best) ==
    IF k > Len(lst) THEN best
    ELSE PyMaxFrom(lst, k + 1, IF PyLess(best, lst[k]) THEN lst[k] ELSE best)

PyMax(lst) == PyMaxFrom(lst, 2, lst[1])

\* the mask that only tests qtrs_frm_peak <= frwd_qtrs_main
MainMaskNoLower(rec, bkwd_main, frwd_main) ==
    LET q == Col(rec, <<"qtrs_frm_peak">>)
    IN  [t \in 1..Len(q) |-> q[t] <= frwd_main]

\* lines 329-330 and 333-334: (qtrs_frm_peak >= -bkwd_qtrs_main) &
\* (qtrs_frm_peak <= frwd_qtrs_main)
MainMask(rec, bkwd_main, frwd_main) ==
    LET q == Col(rec, <<"qtrs_frm_peak">>)
    IN  [t \in 1..Len(q) |-> q[t] >= -bkwd_main /\ q[t] <= frwd_main]

\* lines 318-323: the four columns of recession n without the rows that
\* have a null, Date{n} and GDPC1{n} renamed and usgdp_dv_pk{n} too
PkRec(pk, n) ==
    LET cols == Project(pk, << <<"qtrs_frm_peak">>, Nm("Date", n),
                               Nm("GDPC1", n), Nm("usgdp_dv_pk", n) >>)
        named == Rename(Dropna(cols), Nm("Date", n), <<"Date">>,
                        Nm("GDPC1", n), <<"GDPC1">>)
    IN  Rename(named, Nm("usgdp_dv_pk", n), <<"usgdp_dv_pk">>,
               Nm("usgdp_dv_pk", n), <<"usgdp_dv_pk">>)

\* One pass of the loop over range(15), lines 317-334.
Summarize ==
    /\ npp.pc = "for"
    /\ npp.i < NRec
    /\ LET usgdp_pk_rec == PkRec(result[1], npp.i)
           inmain == Masked(Col(usgdp_pk_rec, <<"usgdp_dv_pk">>),
                            MainMask(usgdp_pk_rec, npp.bkwd_qtrs_main,
                                     npp.frwd_qtrs_main))
       IN  npp' = [npp EXCEPT
                     !.rec_cds_list = Append(@, usgdp_pk_rec),
                     !.min_main_val_lst = Append(@, SeriesMin(inmain)),
                     !.max_main_val_lst = Append(@, SeriesMax(inmain)),
                     !.i = @ + 1]
    /\ UNCHANGED << frwd_qtrs_max, bkwd_qtrs_max, end_date_str2, usgdp_df,
                    usgdp_pk, usgdp_pk_long, peak_vals, peak_dates, i, pc,
                    result, files >>

\* fig_buffer_pct = 0.10
fig_buffer_pct == Frac(1, 10)

\* 'images/usgdp_npp_' + end_date_str2 + '.html'
FilenameHtml(date_str) == <<"images/usgdp_npp_">> \o date_str \o <<".html">>

\* lines 370-421: the line of each of the 15 recessions on its
\* ColumnDataSource, the first and the last one 5 wide, then the two dashed
\* lines
Lines ==
    [k \in 1..(NRec + 2) |->
        IF k <= NRec
        THEN [x |-> "qtrs_frm_peak", y |-> "usgdp_dv_pk", source |-> k - 1,
              line_width |-> IF k \in {1, NRec} THEN 5 ELSE 2]
        ELSE [line_dash |-> "dashed", line_width |-> 2]]

\* lines 355-367: figure(...) with the y_range and the x_range of the main
\* window widened by fig_buffer_pct of its extent
Figure(min_main_val, max_main_val, bkwd_main, frwd_main) ==
    LET datarange_main_vals == FloatSub(max_main_val, min_main_val)
        datarange_main_qtrs == ToFloat(frwd_main + bkwd_main)
        ybuf == FloatMul(fig_buffer_pct, datarange_main_vals)
        xbuf == FloatMul(fig_buffer_pct, datarange_main_qtrs)
    IN  [plot_height |-> 500,
         plot_width |-> 800,
         y_range |-> << FloatSub(min_main_val, ybuf),
                        FloatAdd(max_main_val, ybuf) >>,
         x_range |-> << FloatSub(ToFloat(-bkwd_main), xbuf),
                        FloatAdd(ToFloat(frwd_main), xbuf) >>,
         renderers |-> << >>,
         right |-> << >>,
         above |-> << >>,
         below |-> << >>,
         hover |-> FALSE]

\* lines 336-482: the output file name, the range of the main window over
\* the 15 recessions, the figure, its 17 lines, the legend with the label
\* of every recession and the two titles
MakeFigure ==
    /\ npp.pc = "for"
    /\ npp.i = NRec
    /\ LET min_main_val == PyMin(npp.min_main_val_lst)
           max_main_val == PyMax(npp.max_main_val_lst)
           fig == Figure(min_main_val, max_main_val, npp.bkwd_qtrs_main,
                         npp.frwd_qtrs_main)
       IN  npp' = [npp EXCEPT
                     !.pc = "source",
                     !.filename = FilenameHtml(result[2]),
                     !.min_main_val = min_main_val,
                     !.max_main_val = max_main_val,
                     !.fig = [fig EXCEPT
                                !.renderers = Lines,
                                !.right = << result[6] >>,
                                !.above = << "fig_title3", "fig_title2" >>]]
    /\ UNCHANGED << frwd_qtrs_max, bkwd_qtrs_max, end_date_str2, usgdp_df,
                    usgdp_pk, usgdp_pk_long, peak_vals, peak_dates, i, pc,
                    result, files >>

\* strftime("%B")
MonthNames ==
    << "January", "February", "March", "April", "May", "June", "July",
       "August", "September", "October", "November", "December" >>

\* lines 484-490: month name, day without leading zero, year
UpdatedDateStr(end_date) ==
    << MonthNames[Month(end_date)], " ", Day(end_date), ", ", Year(end_date) >>

\* the attributes of the figure object that usgdp_npp reads: title, toolbar,
\* legend and the methods line, add_layout and add_tools
FigureAttrs == {"title", "toolbar", "legend", "line", "add_layout", "add_tools"}

\* Lines 483-508.  The expression statement fig.ad of line 491 reads an
\* attribute the figure does not have and raises AttributeError; otherwise
\* the source text is added below, the HoverTool is added and, html_show
\* being False, (fig, end_date_str) is returned.
SourceText ==
    /\ npp.pc = "source"
    /\ IF "ad" \in FigureAttrs
       THEN npp' = [npp EXCEPT
                      !.pc = "returned",
                      !.updated_date_str = UpdatedDateStr(npp.end_date),
                      !.fig = [npp.fig EXCEPT !.below = << "source" >>,
                                              !.hover = TRUE],
                      !.result = << [npp.fig EXCEPT !.below = << "source" >>,
                                                    !.hover = TRUE],
                                    npp.end_date_str >>]
       ELSE npp' = [npp EXCEPT
                      !.pc = "raised",
                      !.updated_date_str = UpdatedDateStr(npp.end_date)]
    /\ UNCHANGED << frwd_qtrs_max, bkwd_qtrs_max, end_date_str2, usgdp_df,
                    usgdp_pk, usgdp_pk_long, peak_vals, peak_dates, i, pc,
                    result, files >>

NextNpp ==
    Iterate \/ Return \/ Receive \/ Summarize \/ MakeFigure \/ SourceText

SpecNpp == InitNpp /\ [][NextNpp]_vars

\* ================================================================ claims
\* Shorthands for the formulas below.
Dates == Col(usgdp_df, <<"Date">>)

Vals == Col(usgdp_df, <<"GDPC1">>)

Axis == Col(usgdp_pk, <<"qtrs_frm_peak">>)

\* calendar quarter of a date, counted from year 0
QuarterOf(t) == Year(t) * 4 + (Month(t) - 1) \div 3

\* no two observations fall in the same calendar quarter
OnePerQuarter ==
    Cardinality({QuarterOf(d) : d \in Range(Dates)}) = Len(Dates)

\* every observation is dated on the first day of month 1, 4, 7 or 10
StrictlyQuarterly ==
    \A r \in 1..Len(Dates) : Day(Dates[r]) = 1 /\ Month(Dates[r]) \in {1, 4, 7, 10}

\* the dates of the series are strictly increasing
StrictlyIncreasing == \A r \in 1..(Len(Dates) - 1) : Dates[r] < Dates[r + 1]

\* Recessions whose results are examined in the current state: the one just
\* processed while the loop runs (every recession is the last processed one
\* in some state of every run), all processed ones once the function is over.
Checked ==
    IF pc = "loop" THEN (IF i = 0 THEN {} ELSE {i - 1}) ELSE 0..(i - 1)

\* the name prefix followed by the decimal digits of j < 100
Indexed(prefix, j) ==
    IF j < 10 THEN <<prefix, j>> ELSE <<prefix, j \div 10, j % 10>>

\* cell of usgdp_pk in table row t and the column called prefix{j}; the column
\* is looked for at the place it has when every merge adds three columns,
\* and by a search through the names otherwise
Cell(t, prefix, j) ==
    LET c == 1 + 3 * j + (CASE prefix = "Date" -> 1 [] prefix = "GDPC1" -> 2
                            [] OTHER -> 3)
    IN  IF c <= Len(usgdp_pk.columns) /\ usgdp_pk.columns[c] = Indexed(prefix, j)
        THEN usgdp_pk.data[c][t]
        ELSE Col(usgdp_pk, Indexed(prefix, j))[t]

\* first and last day of the peak-search window of recession j
WindowLo(j) ==
    Timestamp(maxdate_rng_lst[j + 1][1][1], maxdate_rng_lst[j + 1][1][2],
              maxdate_rng_lst[j + 1][1][3])

WindowHi(j) ==
    Timestamp(maxdate_rng_lst[j + 1][2][1], maxdate_rng_lst[j + 1][2][2],
              maxdate_rng_lst[j + 1][2][3])

\* rows of the loaded series dated inside the closed window of recession j
WindowRows(j) ==
    LET lo == WindowLo(j)
        hi == WindowHi(j)
        dates == Dates
    IN  {r \in 1..Len(dates) : lo <= dates[r] /\ dates[r] <= hi}

\* rows of the window of recession j whose value no row of the window exceeds
WindowMaxRows(j) ==
    LET W == WindowRows(j)
        vals == Vals
    IN  {r \in W : \A r2 \in W : FloatLE(vals[r2], vals[r])}

\* the float 1.0
One == [num |-> 1, den |-> 1]

\* the float 0.0
Zero == [num |-> 0, den |-> 1]

\* C1: for a series with one observation per quarter, the qtrs_frm_peak column
\* of usgdp_pk is exactly -bkwd_qtrs_max, ..., frwd_qtrs_max in ascending
\* order, without gap or duplicate (so the table has bkwd_qtrs_max +
\* frwd_qtrs_max + 1 rows), initially, after every merge and when returned,
\* whatever cells the merges left null.
C1_AxisExact ==
    OnePerQuarter =>
        /\ NRows(usgdp_pk) = bkwd_qtrs_max + frwd_qtrs_max + 1
        /\ \A c \in 1..Len(usgdp_pk.data) :
              Len(usgdp_pk.data[c]) = bkwd_qtrs_max + frwd_qtrs_max + 1
        /\ \A t \in 1..Len(Axis) : Axis[t] = t - 1 - bkwd_qtrs_max

\* all 15 recessions merged and returned, and some row has the cells of
\* recession 0 null
C1_Witness ==
    /\ pc = "returned"
    /\ OnePerQuarter
    /\ \E t \in 1..NRows(result[1]) :
          /\ Cell(t, "Date", 0) = NaT
          /\ Cell(t, "GDPC1", 0) = NaN
          /\ Cell(t, "usgdp_dv_pk", 0) = NaN

\* a series with two observations in one quarter: the axis gets a duplicate
C1_AnySeries ==
    /\ NRows(usgdp_pk) = bkwd_qtrs_max + frwd_qtrs_max + 1
    /\ \A t \in 1..Len(Axis) : Axis[t] = t - 1 - bkwd_qtrs_max

\* C2: for every merged recession j and every bkwd_qtrs_max, frwd_qtrs_max
\* >= 0, usgdp_pk has a row at offset 0 that is populated for recession j:
\* GDPC1{j} is peak_vals[j], usgdp_dv_pk{j} is 1.0, Date{j} is the date
\* written in peak_dates[j] and lies inside the closed window of recession j.
\* For a series with one observation per quarter that row is the only row at
\* offset 0, and with bkwd_qtrs_max = frwd_qtrs_max = 0 the only row of the
\* table.
C2_PeakRowAtZero ==
    /\ \A j \in 0..(i - 1) :
          \E t \in 1..Len(Axis) :
              /\ Axis[t] = 0
              /\ Cell(t, "GDPC1", j) = peak_vals[j + 1]
              /\ Cell(t, "usgdp_dv_pk", j) = One
              /\ Cell(t, "Date", j) = Strptime(peak_dates[j + 1])
              /\ WindowLo(j) <= Cell(t, "Date", j)
              /\ Cell(t, "Date", j) <= WindowHi(j)
    /\ OnePerQuarter =>
          /\ Cardinality({t \in 1..Len(Axis) : Axis[t] = 0}) = 1
          /\ (bkwd_qtrs_max = 0 /\ frwd_qtrs_max = 0) => NRows(usgdp_pk) = 1

\* the boundary case: the one-row table with all 15 recessions is returned
C2_Witness ==
    /\ pc = "returned"
    /\ bkwd_qtrs_max = 0
    /\ frwd_qtrs_max = 0
    /\ OnePerQuarter
    /\ NRows(result[1]) = 1
    /\ Len(result[1].columns) = 1 + 3 * NRec

\* C9: after the k-th merge usgdp_pk has exactly 1 + 3k columns:
\* qtrs_frm_peak followed, for each merged recession j in order, by Date{j},
\* GDPC1{j} and usgdp_dv_pk{j}; the join key qtrs_frm_pk{j} is not kept and
\* all names are pairwise distinct.  The returned table has 1 + 3 * 15 = 46
\* columns.
C9_Columns ==
    /\ Len(usgdp_pk.columns) = 1 + 3 * i
    /\ Len(usgdp_pk.data) = 1 + 3 * i
    /\ usgdp_pk.columns[1] = <<"qtrs_frm_peak">>
    /\ \A j \in 0..(i - 1) :
          /\ usgdp_pk.columns[3 * j + 2] = Indexed("Date", j)
          /\ usgdp_pk.columns[3 * j + 3] = Indexed("GDPC1", j)
          /\ usgdp_pk.columns[3 * j + 4] = Indexed("usgdp_dv_pk", j)
    /\ Cardinality(Range(usgdp_pk.columns)) = Len(usgdp_pk.columns)
    /\ pc = "returned" =>
          /\ result[1] = usgdp_pk
          /\ Len(result[1].columns) = 46

\* the table with the columns of all 15 recessions is returned
C9_Witness ==
    /\ pc = "returned"
    /\ Len(result[1].columns) = 46
    /\ result[1].columns[46] = <<"usgdp_dv_pk", 1, 4>>

\* C3: when the maximal value of a recession's window is attained at several
\* dates, the date written in peak_dates is the latest of them, and the
\* observation of that date is the origin (offset 0.0) of the recession's
\* qtrs_frm_pk column.
C3_TieLatest ==
    \A j \in Checked :
        LET M == WindowMaxRows(j)
            pd == Strptime(peak_dates[j + 1])
        IN  /\ \E r \in M : Dates[r] = pd
            /\ \A r \in M : Dates[r] <= pd
            /\ \A r \in M :
                  Dates[r] = pd =>
                      Col(usgdp_pk_long, Indexed("qtrs_frm_pk", j))[r] = Zero

\* a recession has just been processed whose window maximum is attained at
\* two different dates
C3_Witness ==
    /\ pc = "loop"
    /\ i > 0
    /\ \E r1, r2 \in WindowMaxRows(i - 1) :
          /\ Dates[r1] < Dates[r2]
          /\ Strptime(peak_dates[i]) = Dates[r2]

\* C4: the peak value of a processed recession is the maximum of the values
\* of exactly the observations dated in the closed window [start, end]: some
\* observation of the window has it and none of the window exceeds it.  In
\* the window 2007-7-1 .. 2008-1-1 with the single maximum 15000.0 at
\* 2007-10-01 the peak is (15000.0, '2007-10-01').
C4_PeakIsWindowMax ==
    \A j \in Checked :
        LET W == WindowRows(j)
            pv == peak_vals[j + 1]
        IN  /\ W # {}
            /\ \E r \in W : Vals[r] = pv
            /\ \A r \in W : FloatLE(Vals[r], pv)
            /\ ( /\ WindowLo(j) = Timestamp(2007, 7, 1)
                 /\ WindowHi(j) = Timestamp(2008, 1, 1)
                 /\ \E r \in W : Dates[r] = Timestamp(2007, 10, 1)
                 /\ \A r \in W :
                       IF Dates[r] = Timestamp(2007, 10, 1)
                       THEN Vals[r] = ToFloat(15000)
                       ELSE FloatLT(Vals[r], ToFloat(15000)) )
                => /\ pv = ToFloat(15000)
                   /\ peak_dates[j + 1] = <<2, 0, 0, 7, "-", 1, 0, "-", 0, 1>>

\* the 2007 recession has just been processed on the series whose window
\* 2007-7-1 .. 2008-1-1 holds 14000, 15000 (at 2007-10-01) and 14500
C4_Witness ==
    /\ pc = "loop"
    /\ i = 14
    /\ \E r \in WindowRows(13) :
          Dates[r] = Timestamp(2007, 10, 1) /\ Vals[r] = ToFloat(15000)
    /\ \E r \in WindowRows(13) :
          Dates[r] = Timestamp(2008, 1, 1) /\ Vals[r] = ToFloat(14500)
    /\ peak_vals[14] = ToFloat(15000)

\* the qtrs_frm_pk{j} column of usgdp_pk_long, and its Date column
QtrsCol(j) == Col(usgdp_pk_long, Indexed("qtrs_frm_pk", j))

LongDates == Col(usgdp_pk_long, <<"Date">>)

\* C5: for a strictly quarterly series the offset of every observation for a
\* processed recession is the integer (obsYear - peakYear) * 4 +
\* (obsMonth - peakMonth) / 3, the month difference being a multiple of 3;
\* offsets never decrease with the date and grow by exactly 1 from a quarter
\* to the next one; the observation of 2008-01-01 has offset +1 for a peak
\* dated 2007-10-01.
C5_OffsetFormula ==
    StrictlyQuarterly =>
        \A j \in Checked :
            LET pd == Strptime(peak_dates[j + 1])
                q == QtrsCol(j)
                dates == LongDates
            IN  /\ Len(q) = Len(dates)
                /\ \A r \in 1..Len(dates) :
                      /\ (Month(dates[r]) - Month(pd)) % 3 = 0
                      /\ q[r].den = 1
                      /\ q[r].num = (Year(dates[r]) - Year(pd)) * 4
                                      + (Month(dates[r]) - Month(pd)) \div 3
                /\ \A r \in 1..(Len(dates) - 1) :
                      /\ dates[r] <= dates[r + 1] => FloatLE(q[r], q[r + 1])
                      /\ dates[r + 1] <= dates[r] => FloatLE(q[r + 1], q[r])
                      /\ QuarterOf(dates[r + 1]) = QuarterOf(dates[r]) + 1
                            => q[r + 1].num = q[r].num + 1
                /\ pd = Timestamp(2007, 10, 1) =>
                      \A r \in 1..Len(dates) :
                          dates[r] = Timestamp(2008, 1, 1) => q[r] = One

\* the 2007 recession has just been processed on a strictly quarterly series,
\* its peak is dated 2007-10-01 and the observation of 2008-01-01 has offset 1
C5_Witness ==
    /\ pc = "loop"
    /\ i = 14
    /\ StrictlyQuarterly
    /\ peak_dates[14] = <<2, 0, 0, 7, "-", 1, 0, "-", 0, 1>>
    /\ \E r \in 1..Len(LongDates) :
          LongDates[r] = Timestamp(2008, 1, 1) /\ QtrsCol(13)[r] = One

\* C6: for a strictly quarterly series with strictly increasing dates and a
\* processed recession, exactly one observation of the whole series has
\* offset 0, and it is the peak observation: dated at the recorded peak date,
\* inside the window, with the peak value.
C6_OneZeroOffset ==
    (StrictlyQuarterly /\ StrictlyIncreasing) =>
        \A j \in Checked :
            LET q == QtrsCol(j)
                Z == {r \in 1..Len(q) : q[r] = Zero}
            IN  /\ Cardinality(Z) = 1
                /\ \A r \in Z :
                      /\ Dates[r] = Strptime(peak_dates[j + 1])
                      /\ Vals[r] = peak_vals[j + 1]
                      /\ WindowLo(j) <= Dates[r]
                      /\ Dates[r] <= WindowHi(j)

\* all 15 recessions processed on such a series, the last one with one
\* observation at offset 0 and others of its window at other offsets
C6_Witness ==
    /\ pc = "returned"
    /\ StrictlyQuarterly
    /\ StrictlyIncreasing
    /\ Cardinality(WindowRows(14)) > 1
    /\ Cardinality({r \in 1..Len(QtrsCol(14)) : QtrsCol(14)[r] = Zero}) = 1

\* third-of-quarter distance of date d from the date pd, from calendar year
\* and month: the offset is k exactly when this is 3 * k
Thirds(d, pd) == (Year(d) - Year(pd)) * 12 + (Month(d) - Month(pd))

\* the float c is the quotient v / pv of the floats v and pv
IsQuotient(c, v, pv) ==
    /\ c # NaN
    /\ c.num * pv.num * v.den = v.num * pv.den * c.den

\* C7: left-join semantics on the offset axis.  For every processed recession
\* j and every offset k in -bkwd_qtrs_max .. frwd_qtrs_max the table has a
\* row for k (exactly one when the series has one observation per quarter);
\* when no observation has offset k for recession j, Date{j}, GDPC1{j} and
\* usgdp_dv_pk{j} are null in every row for k; otherwise every row for k
\* holds the date, the value and value / peak_vals[j] of an observation with
\* offset k, and every such observation is in a row for k.  Observations
\* with an offset outside the axis are in no row, and the pass completes.
C7_LeftJoin ==
    \A j \in Checked :
        LET pd == Strptime(peak_dates[j + 1])
            pv == peak_vals[j + 1]
            dates == Dates
            vals == Vals
            axis == Axis
            lo == 3 * (0 - bkwd_qtrs_max)
            hi == 3 * frwd_qtrs_max
            Near == {r \in 1..Len(dates) :
                        lo <= Thirds(dates[r], pd) /\ Thirds(dates[r], pd) <= hi}
        IN  \A k \in (0 - bkwd_qtrs_max)..frwd_qtrs_max :
                LET Mk == {r \in Near : Thirds(dates[r], pd) = 3 * k}
                    Tk == {t \in 1..Len(axis) : axis[t] = k}
                    Holds(t, r) ==
                        /\ Cell(t, "Date", j) = dates[r]
                        /\ Cell(t, "GDPC1", j) = vals[r]
                        /\ IsQuotient(Cell(t, "usgdp_dv_pk", j), vals[r], pv)
                IN  /\ Tk # {}
                    /\ OnePerQuarter => Cardinality(Tk) = 1
                    /\ IF Mk = {}
                       THEN \A t \in Tk :
                               /\ Cell(t, "Date", j) = NaT
                               /\ Cell(t, "GDPC1", j) = NaN
                               /\ Cell(t, "usgdp_dv_pk", j) = NaN
                       ELSE /\ \A r \in Mk : \E t \in Tk : Holds(t, r)
                            /\ \A t \in Tk : \E r \in Mk : Holds(t, r)

\* the table is returned with a null cell (recession 0 has no observation
\* before its peak) and with the observation of 2008-01-01 in the row of
\* offset 1 of the 2007 recession, while most observations are out of range
C7_Witness ==
    /\ pc = "returned"
    /\ \E t \in 1..Len(Axis) : Axis[t] = -1 /\ Cell(t, "Date", 0) = NaT
    /\ \E t \in 1..Len(Axis) :
          Axis[t] = 1 /\ Cell(t, "Date", 13) = Timestamp(2008, 1, 1)
    /\ Len(Dates) > Len(Axis)

\* the list item describes the recession whose window is rng: the labels
\* start with the start month and year, and the window starts in the start
\* year or the year before it
SameRecession(yr, yrmth, beg, rng) ==
    /\ yr[1] = beg[2]
    /\ yrmth[1] = beg[1]
    /\ yrmth[2] = beg[2]
    /\ rng[1][1] \in {beg[2] - 1, beg[2]}

\* C8: the returned value is a tuple of 8 items; peak_vals, peak_dates and
\* the four catalog lists have length 15 and are in catalog order, the 1929
\* recession first and the 2020 one last; at every index the peak value and
\* the peak date are those found in the window of maxdate_rng_lst at that
\* index, and the three labels describe that window's recession.
C8_ReturnedLists ==
    pc = "returned" =>
        /\ Len(result) = 8
        /\ \A n \in 3..8 : Len(result[n]) = 15
        /\ result[8] = maxdate_rng_lst
        /\ result[6][1] = <<"Aug", 1929, "Mar", 1933>>
        /\ result[6][15] = <<"Feb", 2020, "Apr", 2020>>
        /\ \A j \in 0..13 : WindowHi(j) < WindowLo(j + 1)
        /\ \A j \in 0..14 :
              /\ SameRecession(result[5][j + 1], result[6][j + 1],
                               result[7][j + 1], result[8][j + 1])
              /\ WindowMaxRows(j) # {}
              /\ \A r \in WindowMaxRows(j) :
                    /\ Vals[r] = result[3][j + 1]
                    /\ Dates[r] <= Strptime(result[4][j + 1])
              /\ \E r \in WindowMaxRows(j) :
                    result[4][j + 1] = Strftime(Dates[r])

\* the function has returned its 8-tuple
C8_Witness ==
    /\ pc = "returned"
    /\ Len(result) = 8
    /\ Len(result[3]) = 15
    /\ Len(result[4]) = 15

\* C10: when the window of the recession being processed holds no
\* observation, the pass fails at once: the function is left by the raise
\* with usgdp_pk, peak_dates and the index untouched, nothing returned and no
\* file written; no step follows a raise, and no pass that continues the
\* loop or returns leaves a missing peak value or date in the lists.
C10_EmptyWindowRaises ==
    [][ /\ pc # "raised"
        /\ (pc = "loop" /\ i < NRec /\ WindowRows(i) = {}) =>
              /\ pc' = "raised"
              /\ i' = i
              /\ usgdp_pk' = usgdp_pk
              /\ peak_dates' = peak_dates
              /\ result' = << >>
              /\ files' = {}
        /\ pc' # "raised" =>
              /\ Len(peak_vals') = Len(peak_dates')
              /\ \A n \in 1..Len(peak_vals') :
                    peak_vals'[n] # NaN /\ Strptime(peak_dates'[n]) # NaT
      ]_vars

\* the series ends before the window of the last recession: the raise came
\* in pass 14, after 14 recessions were merged
C10_Witness ==
    /\ pc = "raised"
    /\ i = 14
    /\ WindowRows(14) = {}
    /\ Len(usgdp_pk.columns) = 1 + 3 * 14
    /\ result = << >>

\* C11: all-or-nothing output.  Nothing is returned and the file
\* usgdp_pk_<date>.csv is not written while the loop runs or after a pass has
\* raised, whatever columns usgdp_pk holds by then; the write and the return
\* come only after the 15th merge, and the table returned is usgdp_pk with
\* the three columns of every one of the 15 recessions.
C11_AllOrNothing ==
    /\ pc # "returned" => result = << >> /\ files = {}
    /\ result # << >> =>
          /\ pc = "returned"
          /\ i = NRec
          /\ Len(peak_dates) = NRec
          /\ result[1] = usgdp_pk
          /\ \A j \in 0..(NRec - 1) :
                {Indexed("Date", j), Indexed("GDPC1", j),
                 Indexed("usgdp_dv_pk", j)} \subseteq Range(result[1].columns)
          /\ files = {FilenameFull(end_date_str2)}

\* a pass has raised after some recessions were merged: usgdp_pk holds their
\* columns, and nothing is returned or written
C11_Witness ==
    /\ pc = "raised"
    /\ i > 0
    /\ Len(usgdp_pk.columns) = 1 + 3 * i
    /\ Indexed("usgdp_dv_pk", i - 1) \in Range(usgdp_pk.columns)
    /\ peak_vals[i + 1] = NaN
    /\ files = {}

\* C12: when the dates of the loaded series are not strictly increasing (two
\* observations out of order or two with the same date), the function does
\* not return: no table is produced from such a series.
C12_NonMonotonicAborts ==
    ~StrictlyIncreasing => (pc # "returned" /\ result = << >> /\ files = {})

\* rows of usgdp_pk whose offset lies in the main window
MainRows ==
    {t \in 1..Len(Axis) :
        -npp.bkwd_qtrs_main <= Axis[t] /\ Axis[t] <= npp.frwd_qtrs_main}

\* the non-null value-over-peak entries of recession j in the main window
MainRatios(j) == {Cell(t, "usgdp_dv_pk", j) : t \in MainRows} \ {NaN}

\* the float lo is the least and hi the greatest member of the set R
IsMinMax(lo, hi, R) ==
    /\ lo \in R
    /\ hi \in R
    /\ \A c \in R : FloatLE(lo, c) /\ FloatLE(c, hi)

\* C13: for main ranges >= 0, min_main_val and max_main_val are the minimum
\* and the maximum of usgdp_dv_pk{j} over all 15 recessions j and all rows
\* of the table with -bkwd_qtrs_main <= qtrs_frm_peak <= frwd_qtrs_main,
\* the null entries left out; so are the items of min_main_val_lst and
\* max_main_val_lst for their recession.  No item and no result is NaN, and
\* usgdp_npp raises nothing before the range is computed.
C13_SummaryRange ==
    /\ npp.pc \in {"for", "source", "raised", "returned"} =>
          /\ Len(npp.min_main_val_lst) = npp.i
          /\ Len(npp.max_main_val_lst) = npp.i
          /\ \A j \in 0..(npp.i - 1) :
                IsMinMax(npp.min_main_val_lst[j + 1],
                         npp.max_main_val_lst[j + 1], MainRatios(j))
    /\ npp.pc \in {"source", "raised", "returned"} =>
          /\ npp.i = NRec
          /\ npp.min_main_val # NaN
          /\ npp.max_main_val # NaN
          /\ IsMinMax(npp.min_main_val, npp.max_main_val,
                      UNION {MainRatios(j) : j \in 0..(NRec - 1)})

\* the range is computed for a main window narrower than the axis, with a
\* null entry inside the window (recession 0 has no observation before its
\* peak), and it runs from 0.5 to 1.0
C13_Witness ==
    /\ npp.pc = "source"
    /\ npp.bkwd_qtrs_main = 1
    /\ npp.frwd_qtrs_main = 0
    /\ frwd_qtrs_max = 1
    /\ \E t \in MainRows : Cell(t, "usgdp_dv_pk", 0) = NaN
    /\ \E t \in 1..Len(Axis) : t \notin MainRows
    /\ npp.min_main_val = Frac(1, 2)
    /\ npp.max_main_val = One

\* C14: for main and max ranges >= 0, usgdp_end_date 'today' or the date of
\* an available series and html_show False, usgdp_npp raises at no step
\* from the loading of the data to the end of the figure construction, and
\* what it returns is the pair (fig, end_date_str) of the figure built and
\* a date string that strptime and strftime with '%Y-%m-%d' give back
\* unchanged.
C14_RunsToCompletion ==
    /\ npp.pc # "raised"
    /\ npp.pc = "returned" =>
          /\ npp.result = << npp.fig, npp.end_date_str >>
          /\ npp.fig # Unassigned
          /\ Strftime(Strptime(npp.end_date_str)) = npp.end_date_str

\* C15: an observation whose month differs from the peak month of a
\* processed recession j by a number that is not a multiple of 3 has a
\* non-integer qtrs_frm_pk{j}; no row of usgdp_pk holds its date in Date{j}
\* (it is not rounded into a neighbouring quarter's row) and the pass has
\* completed without error, while every observation at an integer offset
\* of the axis is in a row of that offset with its date, value and ratio.
C15_FractionalAbsent ==
    \A j \in Checked :
        LET pd == Strptime(peak_dates[j + 1])
            pv == peak_vals[j + 1]
            q == QtrsCol(j)
            dates == Dates
            vals == Vals
            axis == Axis
            InTable == {Cell(t, "Date", j) : t \in 1..Len(axis)}
        IN  /\ pc # "raised" \/ j < i
            /\ \A r \in 1..Len(dates) :
                  IF (Month(dates[r]) - Month(pd)) % 3 # 0
                  THEN /\ q[r] # NaN
                       /\ q[r].den = 3
                       /\ dates[r] \notin InTable
                  ELSE /\ q[r].den = 1
                       /\ (-bkwd_qtrs_max <= q[r].num /\ q[r].num <= frwd_qtrs_max)
                            => \E t \in 1..Len(axis) :
                                  /\ axis[t] = q[r].num
                                  /\ Cell(t, "Date", j) = dates[r]
                                  /\ Cell(t, "GDPC1", j) = vals[r]
                                  /\ IsQuotient(Cell(t, "usgdp_dv_pk", j),
                                                vals[r], pv)

\* the 2007 recession has just been processed with its peak on the
\* observation dated 2007-11-01: the observations of 2007-07-01 and
\* 2008-01-01 are a third of a quarter off the axis, and the rows of the
\* offsets -1 and 1 are null for this recession
C15_Witness ==
    /\ pc = "loop"
    /\ i = 14
    /\ Strptime(peak_dates[14]) = Timestamp(2007, 11, 1)
    /\ \E r \in 1..Len(Dates) :
          Dates[r] = Timestamp(2008, 1, 1) /\ QtrsCol(13)[r] = Frac(2, 3)
    /\ \E r \in 1..Len(Dates) :
          Dates[r] = Timestamp(2007, 7, 1) /\ QtrsCol(13)[r] = Frac(-4, 3)
    /\ \E t \in 1..Len(Axis) : Axis[t] = 1 /\ Cell(t, "Date", 13) = NaT
    /\ \E t \in 1..Len(Axis) : Axis[t] = -1 /\ Cell(t, "Date", 13) = NaT
    /\ \E t \in 1..Len(Axis) :
          Axis[t] = 0 /\ Cell(t, "Date", 13) = Timestamp(2007, 11, 1)

\* C16: frame property of the merge loop.  A pass of the loop leaves
\* unchanged the loaded series, the Date and GDPC1 columns of its copy, the
\* offset axis and every cell of the columns merged for the recessions
\* before it.
C16_MergeFrame ==
    [][ (pc = "loop" /\ i < NRec) =>
          /\ usgdp_df' = usgdp_df
          /\ Col(usgdp_pk_long', <<"Date">>) = Dates
          /\ Col(usgdp_pk_long', <<"GDPC1">>) = Vals
          /\ Col(usgdp_pk', <<"qtrs_frm_peak">>) = Axis
          /\ \A j \in 0..(i - 1) :
                /\ Col(usgdp_pk', Indexed("Date", j))
                      = Col(usgdp_pk, Indexed("Date", j))
                /\ Col(usgdp_pk', Indexed("GDPC1", j))
                      = Col(usgdp_pk, Indexed("GDPC1", j))
                /\ Col(usgdp_pk', Indexed("usgdp_dv_pk", j))
                      = Col(usgdp_pk, Indexed("usgdp_dv_pk", j))
      ]_vars

====
